---- MODULE Spec2Model ----
(***************************************************************************)
(* ScratchABit engine (src/engine.py): the address space (areas, bytes,    *)
(* per-byte flags, unit navigation), the annotation tables, the            *)
(* persistence codec and the analysis driver, as a state machine.          *)
(*                                                                         *)
(* Python values are modelled as follows.  A str is a sequence of one      *)
(* character strings, an int is an integer, None is the record NoneV where *)
(* a value is returned.  A dict is a sequence of entries in insertion      *)
(* order.  An exception raised by an operation is the field exc of the     *)
(* record the operation returns; the state it leaves behind is the state   *)
(* at the raise.  Offsets are 0-based as in the source, sequences 1-based. *)
(***************************************************************************)
EXTENDS Integers, Sequences, FiniteSets, TLC

VARIABLES
    area_list,       \* AddressSpace.area_list: <<[START, END, BYTES, FLAGS]>>
    last_area,       \* AddressSpace.last_area: index into area_list, 0 = None
    labels,          \* AddressSpace.labels, insertion ordered
    comments,        \* AddressSpace.comments, insertion ordered
    xrefs,           \* AddressSpace.xrefs, insertion ordered
    arg_props,       \* AddressSpace.arg_props, insertion ordered
    analisys_stack,  \* the module global analisys_stack
    pc,              \* position of analyze(): "idle" or "loop"
    limit,           \* analyze()'s local limit
    cnt,             \* analyze()'s local cnt
    proc,            \* the processor plugin: ea -> encoded length ana() decodes
    decoded,         \* history: ea -> size ana() returned for it (0 = none)
    pend,            \* history: ea -> times pushed minus times popped
    files,           \* the streams written by the save_* operations
    ret              \* the last operation, its arguments and its result

vars == <<area_list, last_area, labels, comments, xrefs, arg_props,
          analisys_stack, pc, limit, cnt, proc, decoded, pend, files, ret>>

----------------------------------------------------------------------------
(* Bounds of the model *)

\* offset of the last byte of the first area
MaxOff == 2

\* largest unit size passed to make_code / make_data / make_undefined
MaxSz == 3

\* largest instruction size the processor's ana() decodes
MaxInsn == 2

\* analyze()'s per-invocation budget, limit = 40000 in the source, scaled down
Budget == 2

\* most entries of the worklist: add_entrypoint and emu() push up to it
MaxStack == 2

\* largest num_lines of a render_partial call
MaxLines == 2

\* largest context_lines of a render_partial_around call
MaxContext == 1

----------------------------------------------------------------------------
(* Flag values, class AddressSpace *)

UNK == 0
CODE == 1
CODE_CONT == 2
DATA == 4
DATA_CONT == 8
STR == 16

RECURSIVE BitOr(_, _)
BitOr(a, b) ==
    IF a = 0 THEN b
    ELSE IF b = 0 THEN a
    ELSE (IF a % 2 = 1 \/ b % 2 = 1 THEN 1 ELSE 0) + 2 * BitOr(a \div 2, b \div 2)

RECURSIVE BitAnd(_, _)
BitAnd(a, b) ==
    IF a = 0 \/ b = 0 THEN 0
    ELSE (IF a % 2 = 1 /\ b % 2 = 1 THEN 1 ELSE 0) + 2 * BitAnd(a \div 2, b \div 2)

NoExc == "none"
InvalidAddrException == "InvalidAddrException"
TypeError == "TypeError"
IndexError == "IndexError"
AssertionError == "AssertionError"

NoneV == [none |-> TRUE]

----------------------------------------------------------------------------
(* Areas *)

\* bytearray(sz): sz zero bytes
bytearray(sz) == [i \in 1..sz |-> 0]

\* add_area's tuple (start, end, props, bytes, flags); props is opaque and
\* passed through unchanged, so it is left out
NewArea(start, end) ==
    [START |-> start, END |-> end,
     BYTES |-> bytearray(end - start + 1), FLAGS |-> bytearray(end - start + 1)]

\* One area [0, MaxOff]
OneArea == << NewArea(0, MaxOff) >>

\* Two areas with a one byte gap between them: [0, MaxOff] and a one byte
\* area at MaxOff + 2.
TwoAreas == << NewArea(0, MaxOff), NewArea(MaxOff + 2, MaxOff + 2) >>

\* every address of the model: the areas, the gap and one address past the end
AllAddr == 0 .. (MaxOff + 3)

\* addr2area: the cached area first, then a linear scan that sets the cache.
\* area = 0 stands for (None, None).
ScanAreas(addr) ==
    LET hits == {k \in 1..Len(area_list) :
                    area_list[k].START <= addr /\ addr <= area_list[k].END}
    IN  IF hits = {} THEN 0 ELSE CHOOSE k \in hits : \A j \in hits : k <= j

\* an addr2area that trusts the cached area without testing its range
addr2area_cache_first(addr) ==
    IF last_area # 0
    THEN [off |-> addr - area_list[last_area].START, area |-> last_area,
          cache |-> last_area]
    ELSE LET k == ScanAreas(addr)
         IN  IF k = 0
             THEN [off |-> -1, area |-> 0, cache |-> last_area]
             ELSE [off |-> addr - area_list[k].START, area |-> k, cache |-> k]

addr2area(addr) ==
    IF last_area # 0
       /\ area_list[last_area].START <= addr /\ addr <= area_list[last_area].END
    THEN [off |-> addr - area_list[last_area].START, area |-> last_area,
          cache |-> last_area]
    ELSE LET k == ScanAreas(addr)
         IN  IF k = 0
             THEN [off |-> -1, area |-> 0, cache |-> last_area]
             ELSE [off |-> addr - area_list[k].START, area |-> k, cache |-> k]

is_valid_addr(addr) == addr2area(addr).area # 0

\* [addr, addr + sz) lies inside one area
InOneArea(addr, sz) ==
    \E k \in 1..Len(area_list) :
        area_list[k].START <= addr /\ addr + sz - 1 <= area_list[k].END

----------------------------------------------------------------------------
(* Reads *)

\* load_content: readinto fills the slice [off:to] of the bytes, as far as the
\* file's data and the slice go; area None raises TypeError
load_content(data, addr, sz) ==
    LET r == addr2area(addr)
    IN  IF r.area = 0 THEN [areas |-> area_list, exc |-> TypeError]
        ELSE LET b == area_list[r.area].BYTES
                 to0 == IF sz = 0 THEN Len(b) ELSE r.off + sz
                 to == IF to0 < Len(b) THEN to0 ELSE Len(b)
                 n == IF Len(data) < to - r.off THEN Len(data) ELSE to - r.off
             IN  [areas |-> [area_list EXCEPT ![r.area].BYTES =
                                [i \in 1..Len(b) |->
                                    IF r.off < i /\ i <= r.off + n
                                    THEN data[i - r.off] ELSE b[i]]],
                  exc |-> NoExc]

get_byte(addr) ==
    LET r == addr2area(addr)
    IN  IF r.area = 0
        THEN [val |-> -1, exc |-> InvalidAddrException]
        ELSE [val |-> area_list[r.area].BYTES[r.off + 1], exc |-> NoExc]

\* a Python slice stops at the end of the buffer
get_bytes(addr, sz) ==
    LET r == addr2area(addr)
    IN  IF r.area = 0
        THEN [val |-> <<>>, exc |-> InvalidAddrException]
        ELSE LET b == area_list[r.area].BYTES
                 hi == IF r.off + sz < Len(b) THEN r.off + sz ELSE Len(b)
             IN  [val |-> SubSeq(b, r.off + 1, hi), exc |-> NoExc]

Pow256(i) == IF i = 0 THEN 1 ELSE IF i = 1 THEN 256 ELSE IF i = 2 THEN 65536
             ELSE 16777216

RECURSIVE SumBytes(_, _, _, _)
SumBytes(b, off, i, sz) ==
    IF i >= sz THEN 0
    ELSE b[off + i + 1] * Pow256(i) + SumBytes(b, off, i + 1, sz)

\* get_data has no check of area: area[BYTES] on None raises TypeError as soon
\* as the loop body runs; past the end of the buffer the index raises
get_data(addr, sz) ==
    LET r == addr2area(addr)
    IN  IF sz <= 0 THEN [val |-> 0, exc |-> NoExc]
        ELSE IF r.area = 0 THEN [val |-> -1, exc |-> TypeError]
        ELSE IF r.off + sz > Len(area_list[r.area].BYTES)
             THEN [val |-> -1, exc |-> IndexError]
        ELSE [val |-> SumBytes(area_list[r.area].BYTES, r.off, 0, sz),
              exc |-> NoExc]

get_flags(addr) ==
    LET r == addr2area(addr)
    IN  IF r.area = 0
        THEN [val |-> -1, exc |-> InvalidAddrException]
        ELSE [val |-> area_list[r.area].FLAGS[r.off + 1], exc |-> NoExc]

----------------------------------------------------------------------------
(* Unit navigation *)

\* the while loop of get_unit_size: the number of offsets from off on that
\* hold f, or -1 when the scan runs off the end of the flags (IndexError)
RECURSIVE ScanCont(_, _, _)
ScanCont(flags, off, f) ==
    IF off >= Len(flags) THEN -1
    ELSE IF flags[off + 1] = f
         THEN LET n == ScanCont(flags, off + 1, f)
              IN  IF n = -1 THEN -1 ELSE n + 1
         ELSE 0

get_unit_size(addr) ==
    LET r == addr2area(addr)
    IN  IF r.area = 0 THEN [val |-> -1, exc |-> TypeError]
        ELSE LET flags == area_list[r.area].FLAGS
                 h == flags[r.off + 1]
             IN  IF h = CODE \/ h = DATA \/ h = STR
                 THEN LET n == ScanCont(flags, r.off + 1,
                                        IF h = CODE THEN CODE_CONT ELSE DATA_CONT)
                      IN  IF n = -1 THEN [val |-> -1, exc |-> IndexError]
                          ELSE [val |-> 1 + n, exc |-> NoExc]
                 ELSE [val |-> 1, exc |-> NoExc]

\* a walk back that steps over the continuation of code only
RECURSIVE adjust_offset_reverse_code_only(_, _)
adjust_offset_reverse_code_only(off, area) ==
    IF off > 0 /\ area.FLAGS[off + 1] = CODE_CONT
    THEN adjust_offset_reverse_code_only(off - 1, area)
    ELSE off

RECURSIVE adjust_offset_reverse(_, _)
adjust_offset_reverse(off, area) ==
    IF off > 0 /\ area.FLAGS[off + 1] \in {CODE_CONT, DATA_CONT}
    THEN adjust_offset_reverse(off - 1, area)
    ELSE off

----------------------------------------------------------------------------
(* Flag edits.  Each returns the new area_list and the exception raised; a   *)
(* write past the end of the flags raises IndexError after the writes before *)
(* it were done.                                                             *)

\* flags with head written at off and rest at the sz - 1 offsets after it
WriteRange(flags, off, sz, head, rest) ==
    [i \in 1..Len(flags) |->
        IF i = off + 1 THEN head
        ELSE IF off + 1 < i /\ i <= off + sz THEN rest
        ELSE flags[i]]

\* flags with head or-ed in at off and rest at the sz - 1 offsets after it
OrRange(flags, off, sz, head, rest) ==
    [i \in 1..Len(flags) |->
        IF i = off + 1 THEN BitOr(flags[i], head)
        ELSE IF off + 1 < i /\ i <= off + sz THEN BitOr(flags[i], rest)
        ELSE flags[i]]

RangeExc(flags, off, sz) ==
    IF sz > 1 /\ off + sz > Len(flags) THEN IndexError ELSE NoExc

set_flags(addr, sz, head_fl, rest_fl) ==
    LET r == addr2area(addr)
    IN  IF r.area = 0 THEN [areas |-> area_list, exc |-> TypeError]
        ELSE LET flags == area_list[r.area].FLAGS
             IN  [areas |-> [area_list EXCEPT ![r.area].FLAGS =
                                WriteRange(flags, r.off, sz, head_fl, rest_fl)],
                  exc |-> RangeExc(flags, r.off, sz)]

make_undefined(addr, sz) == set_flags(addr, sz, UNK, UNK)

\* make_code that marks the head only
make_code_head_only(addr, sz) ==
    LET r == addr2area(addr)
    IN  IF r.area = 0 THEN [areas |-> area_list, exc |-> TypeError]
        ELSE LET flags == area_list[r.area].FLAGS
             IN  [areas |-> [area_list EXCEPT ![r.area].FLAGS =
                                OrRange(flags, r.off, 1, CODE, CODE_CONT)],
                  exc |-> NoExc]

\* make_code that assigns the flags instead of or-ing them in
make_code_assign(addr, sz) == set_flags(addr, sz, CODE, CODE_CONT)

make_code(addr, sz) ==
    LET r == addr2area(addr)
    IN  IF r.area = 0 THEN [areas |-> area_list, exc |-> TypeError]
        ELSE LET flags == area_list[r.area].FLAGS
             IN  [areas |-> [area_list EXCEPT ![r.area].FLAGS =
                                OrRange(flags, r.off, sz, CODE, CODE_CONT)],
                  exc |-> RangeExc(flags, r.off, sz)]

make_data(addr, sz) ==
    LET r == addr2area(addr)
    IN  IF r.area = 0 THEN [areas |-> area_list, exc |-> TypeError]
        ELSE LET flags == area_list[r.area].FLAGS
             IN  [areas |-> [area_list EXCEPT ![r.area].FLAGS =
                                OrRange(flags, r.off, sz, DATA, DATA_CONT)],
                  exc |-> RangeExc(flags, r.off, sz)]

----------------------------------------------------------------------------
(* Model.undefine_unit: the unit's size, then make_undefined over it *)

undefine_unit(addr) ==
    LET sz == get_unit_size(addr)
    IN  IF sz.exc # NoExc THEN [areas |-> area_list, exc |-> sz.exc]
        ELSE make_undefined(addr, sz.val)

----------------------------------------------------------------------------------------------------------------------------------------
(* The state after construction and add_area *)

NoProc == [a \in AllAddr |-> 0]

InitTables ==
    /\ labels = <<>>
    /\ comments = <<>>
    /\ xrefs = <<>>
    /\ arg_props = <<>>
    /\ files = <<>>

InitDriver ==
    /\ analisys_stack = <<>>
    /\ pc = "idle"
    /\ limit = 0
    /\ cnt = 0
    /\ proc = NoProc
    /\ decoded = [a \in AllAddr |-> 0]
    /\ pend = [a \in AllAddr |-> 0]

InitRet == ret = [op |-> "init", addr |-> 0, sz |-> 0, val |-> 0, exc |-> NoExc]

Init ==
    /\ area_list = OneArea
    /\ last_area = 0
    /\ InitTables
    /\ InitDriver
    /\ InitRet

tables == <<labels, comments, xrefs, arg_props, files>>
driver == <<analisys_stack, pc, limit, cnt, proc, decoded, pend>>

----------------------------------------------------------------------------
(* Flag edits as actions.  They take a range inside one area, as their     *)
(* callers pass.                                                           *)

FlagEdit(op, addr, sz, res) ==
    /\ area_list' = res.areas
    /\ last_area' = addr2area(addr).cache
    /\ ret' = [op |-> op, addr |-> addr, sz |-> sz, val |-> 0, exc |-> res.exc]
    /\ UNCHANGED <<tables, driver>>

MakeCode ==
    \E addr \in AllAddr, sz \in 1..MaxSz :
        /\ InOneArea(addr, sz)
        /\ FlagEdit("make_code", addr, sz, make_code(addr, sz))

MakeData ==
    \E addr \in AllAddr, sz \in 1..MaxSz :
        /\ InOneArea(addr, sz)
        /\ FlagEdit("make_data", addr, sz, make_data(addr, sz))

MakeUndefined ==
    \E addr \in AllAddr, sz \in 1..MaxSz :
        /\ InOneArea(addr, sz)
        /\ FlagEdit("make_undefined", addr, sz, make_undefined(addr, sz))

UndefineUnit ==
    \E addr \in AllAddr :
        /\ InOneArea(addr, 1)
        /\ FlagEdit("undefine_unit", addr, 0, undefine_unit(addr))

Next ==
    \/ MakeCode
    \/ MakeData
    \/ MakeUndefined
    \/ UndefineUnit

Spec == Init /\ [][Next]_vars

----------------------------------------------------------------------------
(* Reads of the store, over two areas whose bytes a loader filled *)

\* the data a loader reads from its file
FileData == {<<65>>, <<66, 67>>}

InitRead ==
    /\ area_list = TwoAreas
    /\ last_area = 0
    /\ InitTables
    /\ InitDriver
    /\ InitRet

LoadContent ==
    \E addr \in AllAddr, data \in FileData :
        /\ is_valid_addr(addr)
        /\ area_list' = load_content(data, addr, 0).areas
        /\ last_area' = addr2area(addr).cache
        /\ ret' = [op |-> "load_content", addr |-> addr, sz |-> 0, val |-> 0,
                   exc |-> NoExc]
        /\ UNCHANGED <<tables, driver>>

Read(op, addr, sz, res) ==
    /\ last_area' = addr2area(addr).cache
    /\ ret' = [op |-> op, addr |-> addr, sz |-> sz, val |-> res.val, exc |-> res.exc]
    /\ UNCHANGED <<area_list, tables, driver>>

GetByte == \E addr \in AllAddr : Read("get_byte", addr, 1, get_byte(addr))

GetBytes ==
    \E addr \in AllAddr, sz \in {1, 2} : Read("get_bytes", addr, sz, get_bytes(addr, sz))

GetData ==
    \E addr \in AllAddr, sz \in {1, 2} : Read("get_data", addr, sz, get_data(addr, sz))

GetFlags == \E addr \in AllAddr : Read("get_flags", addr, 1, get_flags(addr))

NextRead ==
    \/ LoadContent
    \/ GetByte
    \/ GetBytes
    \/ GetData
    \/ GetFlags

SpecRead == InitRead /\ [][NextRead]_vars

----------------------------------------------------------------------------
(* Claims about the flag edits, checked under Spec *)

FlagAt(addr) == get_flags(addr).val

\* C1: after make_code(a, n), get_unit_size(a) = n and every byte of
\* [a+1, a+n) has flag exactly CODE_CONT; after make_data(a, n),
\* get_unit_size(a) = n and every byte of [a+1, a+n) has flag exactly DATA_CONT.
C1_UnitSizeAfterMake ==
    /\ ret.op = "make_code" =>
          /\ get_unit_size(ret.addr) = [val |-> ret.sz, exc |-> NoExc]
          /\ \A a \in (ret.addr + 1) .. (ret.addr + ret.sz - 1) : FlagAt(a) = CODE_CONT
    /\ ret.op = "make_data" =>
          /\ get_unit_size(ret.addr) = [val |-> ret.sz, exc |-> NoExc]
          /\ \A a \in (ret.addr + 1) .. (ret.addr + ret.sz - 1) : FlagAt(a) = DATA_CONT

\* the offsets h < i such that flags hold one of heads at h and cont at every
\* offset of h+1 .. i
HeadsOf(flags, i, heads, cont) ==
    {h \in 0 .. (i - 1) :
        /\ flags[h + 1] \in heads
        /\ \A j \in (h + 1) .. i : flags[j + 1] = cont}

\* C2: a continuation flag never appears without a preceding matching head in
\* the same area: every CODE_CONT byte ends a run of CODE_CONT bytes that
\* starts right after a CODE head, every DATA_CONT byte a run of DATA_CONT
\* bytes that starts right after a DATA or STR head.
C2_ContHasHead ==
    \A k \in 1..Len(area_list) :
        LET flags == area_list[k].FLAGS
        IN  \A i \in 0 .. (Len(flags) - 1) :
                /\ flags[i + 1] = CODE_CONT => HeadsOf(flags, i, {CODE}, CODE_CONT) # {}
                /\ flags[i + 1] = DATA_CONT =>
                      HeadsOf(flags, i, {DATA, STR}, DATA_CONT) # {}

\* C3: every flag byte of every area is exactly one of UNK, CODE, CODE_CONT,
\* DATA, DATA_CONT, STR; no byte holds a combination of two of them.
C3_FlagsDisjoint ==
    \A k \in 1..Len(area_list) :
        \A i \in 1..Len(area_list[k].FLAGS) :
            area_list[k].FLAGS[i] \in {UNK, CODE, CODE_CONT, DATA, DATA_CONT, STR}

----------------------------------------------------------------------------
(* Claim about the reads, checked under SpecRead *)

ReadOps == {"get_byte", "get_bytes", "get_data", "get_flags"}

\* C8: get_byte, get_bytes, get_data and get_flags called with an address
\* outside every area fail with InvalidAddrException and leave bytes, flags
\* and annotation tables unchanged.
C8_ReadOutsideRaises ==
    [][(ret'.op \in ReadOps /\ ~InOneArea(ret'.addr, 1)) =>
          (ret'.exc = InvalidAddrException /\ UNCHANGED <<area_list, tables>>)]_vars

----------------------------------------------------------------------------------------------------------------------------------------
(* The analysis driver: add_entrypoint and analyze() over one area, all    *)
(* flags UNK at first and edited by analyze() alone.  analyze() is one     *)
(* action per pass of its while loop.                                      *)
(*                                                                         *)
(* The processor plugin is outside the engine.  ana() is deterministic:    *)
(* proc[ea] is the encoded length of the instruction it decodes at ea (0:  *)
(* not an instruction), drawn at Init.  ana() reads the instruction's      *)
(* bytes through get_byte, so it raises InvalidAddrException when one of   *)
(* them is in no area.  What emu() pushes is an input of each pass; it     *)
(* returns true (a false result is a fatal processor bug).                 *)

\* the area analysed: two bytes at 0
AnaArea == << NewArea(0, 1) >>

\* the addresses entry points and successors name: the area and one past it
ProcAddr == 0 .. (AnaArea[1].END + 1)

\* what one emu() call may push, in order, onto a worklist of n entries
Succs(n) == UNION {[1..k -> ProcAddr] : k \in 0..(MaxStack - n)}

\* _processor.ana() at ea
ana(ea) ==
    IF get_byte(ea).exc # NoExc THEN [val |-> -1, exc |-> InvalidAddrException]
    ELSE IF proc[ea] > 0 /\ ~InOneArea(ea, proc[ea])
         THEN [val |-> -1, exc |-> InvalidAddrException]
    ELSE [val |-> proc[ea], exc |-> NoExc]

\* list.pop(): the last entry
Top(stack) == stack[Len(stack)]
Pop(stack) == SubSeq(stack, 1, Len(stack) - 1)

\* pend after the entries of seq were pushed
RECURSIVE Pushed(_, _)
Pushed(p, seq) ==
    IF seq = <<>> THEN p
    ELSE Pushed([p EXCEPT ![Head(seq)] = @ + 1], Tail(seq))

\* a pass that lets InvalidAddrException escape analyze()
iteration_abort(ea, a, succ) ==
    IF a.exc = InvalidAddrException
    THEN [stack |-> Pop(analisys_stack), areas |-> area_list, cache |-> last_area,
          limit |-> limit, cnt |-> cnt, pc |-> "idle", emu |-> FALSE, out |-> FALSE]
    ELSE IF a.val # 0
    THEN [stack |-> Pop(analisys_stack) \o succ, areas |-> make_code(ea, a.val).areas,
          cache |-> addr2area(ea).cache,
          limit |-> limit - 1, cnt |-> cnt + 1, pc |-> "loop",
          emu |-> TRUE, out |-> TRUE]
    ELSE [stack |-> Pop(analisys_stack), areas |-> area_list,
          cache |-> addr2area(ea).cache,
          limit |-> limit, cnt |-> cnt, pc |-> "loop", emu |-> FALSE, out |-> FALSE]

\* a pass that does not charge the budget
iteration_no_budget(ea, a, succ) ==
    IF a.exc = InvalidAddrException
    THEN [stack |-> Pop(analisys_stack), areas |-> area_list, cache |-> last_area,
          limit |-> limit, cnt |-> cnt, pc |-> "loop", emu |-> FALSE, out |-> FALSE]
    ELSE IF a.val # 0
    THEN [stack |-> Pop(analisys_stack) \o succ, areas |-> make_code(ea, a.val).areas,
          cache |-> addr2area(ea).cache,
          limit |-> limit, cnt |-> cnt + 1, pc |-> "loop",
          emu |-> TRUE, out |-> TRUE]
    ELSE [stack |-> Pop(analisys_stack), areas |-> area_list,
          cache |-> addr2area(ea).cache,
          limit |-> limit, cnt |-> cnt, pc |-> "loop", emu |-> FALSE, out |-> FALSE]

\* one pass of analyze()'s loop for the popped ea, a = ana()'s result and
\* succ = what emu() pushes: the locals and globals after the pass
iteration(ea, a, succ) ==
    IF a.exc = InvalidAddrException
    THEN [stack |-> Pop(analisys_stack), areas |-> area_list, cache |-> last_area,
          limit |-> limit, cnt |-> cnt, pc |-> "loop", emu |-> FALSE, out |-> FALSE]
    ELSE IF a.val # 0
    THEN [stack |-> Pop(analisys_stack) \o succ, areas |-> make_code(ea, a.val).areas,
          cache |-> addr2area(ea).cache,
          limit |-> limit - 1, cnt |-> cnt + 1, pc |-> "loop",
          emu |-> TRUE, out |-> TRUE]
    ELSE [stack |-> Pop(analisys_stack), areas |-> area_list,
          cache |-> addr2area(ea).cache,
          limit |-> limit, cnt |-> cnt, pc |-> "loop", emu |-> FALSE, out |-> FALSE]

\* while analisys_stack and limit
LoopGuard == analisys_stack # <<>> /\ limit # 0

InitAnalyze ==
    /\ area_list = AnaArea
    /\ last_area = 0
    /\ InitTables
    /\ analisys_stack = <<>>
    /\ pc = "idle"
    /\ limit = 0
    /\ cnt = 0
    /\ proc \in [AllAddr -> 0..MaxInsn]
    /\ \A a \in AllAddr : ~InOneArea(a, 1) => proc[a] = 0
    /\ decoded = [a \in AllAddr |-> 0]
    /\ pend = [a \in AllAddr |-> 0]
    /\ ret = [op |-> "init", addr |-> 0, val |-> 0, exc |-> NoExc,
              again |-> FALSE, emu |-> FALSE, out |-> FALSE]

AddEntrypoint ==
    \E ea \in ProcAddr :
        /\ pc = "idle"
        /\ Len(analisys_stack) < MaxStack
        /\ analisys_stack' = Append(analisys_stack, ea)
        /\ pend' = [pend EXCEPT ![ea] = @ + 1]
        /\ ret' = [op |-> "add_entrypoint", addr |-> ea, val |-> 0, exc |-> NoExc,
                   again |-> FALSE, emu |-> FALSE, out |-> FALSE]
        /\ UNCHANGED <<area_list, last_area, tables, pc, limit, cnt, proc, decoded>>

AnalyzeCall ==
    /\ pc = "idle"
    /\ pc' = "loop"
    /\ cnt' = 0
    /\ limit' = Budget
    /\ ret' = [op |-> "analyze", addr |-> 0, val |-> 0, exc |-> NoExc,
               again |-> FALSE, emu |-> FALSE, out |-> FALSE]
    /\ UNCHANGED <<area_list, last_area, tables, analisys_stack, proc, decoded, pend>>

AnalyzeStep ==
    /\ pc = "loop"
    /\ LoopGuard
    /\ LET ea == Top(analisys_stack)
           a == ana(ea)
       IN  \E succ \in Succs(Len(analisys_stack) - 1) :
             /\ (a.exc # NoExc \/ a.val = 0) => succ = <<>>
             /\ LET n == iteration(ea, a, succ)
                IN  /\ analisys_stack' = n.stack
                    /\ area_list' = n.areas
                    /\ last_area' = n.cache
                    /\ limit' = n.limit
                    /\ cnt' = n.cnt
                    /\ pc' = n.pc
                    /\ decoded' = IF a.exc = NoExc /\ a.val # 0
                                  THEN [decoded EXCEPT ![ea] = a.val] ELSE decoded
                    /\ pend' = Pushed([pend EXCEPT ![ea] = @ - 1],
                                      SubSeq(n.stack, Len(analisys_stack), Len(n.stack)))
                    /\ ret' = [op |-> "step", addr |-> ea, val |-> a.val, exc |-> a.exc,
                               again |-> decoded[ea] > 0, emu |-> n.emu, out |-> n.out]
    /\ UNCHANGED <<tables, proc>>

AnalyzeReturn ==
    /\ pc = "loop"
    /\ ~LoopGuard
    /\ pc' = "idle"
    /\ ret' = [op |-> "return", addr |-> 0, val |-> 0, exc |-> NoExc,
               again |-> FALSE, emu |-> FALSE, out |-> FALSE]
    /\ UNCHANGED <<area_list, last_area, tables, analisys_stack, limit, cnt, proc,
                   decoded, pend>>

NextAnalyze ==
    \/ AddEntrypoint
    \/ AnalyzeCall
    \/ AnalyzeStep
    \/ AnalyzeReturn

SpecAnalyze == InitAnalyze /\ [][NextAnalyze]_vars

\* analyze() has no suspension point: once called, its loop runs until its
\* guard fails and it returns
SpecAnalyzeLive ==
    /\ InitAnalyze
    /\ [][NextAnalyze]_vars
    /\ WF_vars(AnalyzeStep)
    /\ WF_vars(AnalyzeReturn)

----------------------------------------------------------------------------
(* Claims about the analysis driver *)

\* another decoded instruction shares a byte with the one decoded at ea
Overlapped(ea) ==
    \E e2 \in AllAddr \ {ea} :
        decoded[e2] > 0 /\ e2 < ea + decoded[ea] /\ ea < e2 + decoded[e2]

Returned == ret.op = "return" /\ analisys_stack = <<>>

Count(seq, a) == Cardinality({i \in 1..Len(seq) : seq[i] = a})

\* C5: every invocation of analyze() terminates, decodes at most the budget
\* of instructions, returns only when the worklist is empty or the budget is
\* exhausted, and leaves on the worklist every address that was pushed and
\* not yet popped.
C5_AnalyzeTerminates ==
    /\ [](pc = "loop" => (cnt + limit = Budget /\ cnt <= Budget))
    /\ [][(pc = "loop" /\ pc' = "idle") =>
             ((analisys_stack = <<>> \/ limit = 0)
              /\ analisys_stack' = analisys_stack)]_vars
    /\ [](\A a \in AllAddr : Count(analisys_stack, a) = pend[a])
    /\ (pc = "loop" ~> pc = "idle")

\* analyze() returned on an exhausted budget with work left on the worklist
C5_Witness ==
    /\ ret.op = "return"
    /\ limit = 0
    /\ cnt = Budget
    /\ analisys_stack # <<>>

\* C6: when ana() raises InvalidAddrException for the popped ea, analyze()
\* does not abort: no flag changes, emu() and out() are not called, the budget
\* is not consumed, and the loop goes on with the rest of the worklist.
C6_InvalidAddrSkipsPath ==
    [][(ret'.op = "step" /\ ret'.exc = InvalidAddrException) =>
          /\ area_list' = area_list
          /\ ~ret'.emu
          /\ ~ret'.out
          /\ limit' = limit
          /\ limit' > 0
          /\ cnt' = cnt
          /\ decoded' = decoded
          /\ analisys_stack' = Pop(analisys_stack)
          /\ pc' = "loop"]_vars

\* a pass ended on InvalidAddrException and the loop goes on with an entry
\* left on the worklist
C6_Witness ==
    /\ ret.op = "step"
    /\ ret.exc = InvalidAddrException
    /\ pc = "loop"
    /\ analisys_stack # <<>>
    /\ limit > 0

\* C7: popping an address whose instruction has already been decoded leaves
\* every flag byte of every area unchanged (the processor is deterministic).
C7_RedecodeNoChange ==
    [][(ret'.op = "step" /\ decoded[ret'.addr] > 0) => area_list' = area_list]_vars

\* an instruction that overlaps another decoded one was decoded again
C7_Witness ==
    /\ ret.op = "step"
    /\ ret.again
    /\ ret.val > 0
    /\ Overlapped(ret.addr)

----------------------------------------------------------------------------
(* Strings and their formatting *)

HexDigits == <<"0", "1", "2", "3", "4", "5", "6", "7", "8", "9",
               "a", "b", "c", "d", "e", "f">>

\* "%x" % n
RECURSIVE HexStr(_)
HexStr(n) ==
    IF n < 16 THEN <<HexDigits[n + 1]>>
    ELSE HexStr(n \div 16) \o <<HexDigits[(n % 16) + 1]>>

\* "%d" % n
RECURSIVE DecStr(_)
DecStr(n) ==
    IF n < 10 THEN <<HexDigits[n + 1]>>
    ELSE DecStr(n \div 10) \o <<HexDigits[(n % 10) + 1]>>

Zeros(k) == [i \in 1..k |-> "0"]

\* "%08x" % n
Hex8(n) ==
    LET h == HexStr(n)
    IN  IF Len(h) >= 8 THEN h ELSE Zeros(8 - Len(h)) \o h

----------------------------------------------------------------------------
(* The label table.  labels is the dict in insertion order; an entry is    *)
(* [ea, int, n, s]: the key, whether the value is an int (an auto label,   *)
(* n) or a str (s).                                                        *)

IntLabel(ea, n) == [ea |-> ea, int |-> TRUE, n |-> n, s |-> <<>>]
StrLabel(ea, str) == [ea |-> ea, int |-> FALSE, n |-> 0, s |-> str]

\* ea in d
InDict(d, ea) == \E i \in 1..Len(d) : d[i].ea = ea

\* d[ea]
DictGet(d, ea) == d[CHOOSE i \in 1..Len(d) : d[i].ea = ea]

\* d[ea] = e: an existing key keeps its place, a new one goes last
DictSet(d, e) ==
    IF InDict(d, e.ea)
    THEN [i \in 1..Len(d) |-> IF d[i].ea = e.ea THEN e ELSE d[i]]
    ELSE Append(d, e)

\* get_default_label_prefix that tests the CODE bit first
get_default_label_prefix_code_first(ea) ==
    LET fl == get_flags(ea)
    IN  IF fl.exc # NoExc THEN [val |-> <<>>, exc |-> fl.exc]
        ELSE IF BitAnd(fl.val, CODE) # 0
             THEN [val |-> <<"l", "o", "c", "_">>, exc |-> NoExc]
        ELSE IF BitAnd(fl.val, DATA) # 0
             THEN [val |-> <<"d", "a", "t", "_">>, exc |-> NoExc]
        ELSE [val |-> <<"u", "n", "k", "_">>, exc |-> NoExc]

get_default_label_prefix(ea) ==
    LET fl == get_flags(ea)
    IN  IF fl.exc # NoExc THEN [val |-> <<>>, exc |-> fl.exc]
        ELSE IF fl.val = CODE THEN [val |-> <<"l", "o", "c", "_">>, exc |-> NoExc]
        ELSE IF BitAnd(fl.val, DATA) # 0
             THEN [val |-> <<"d", "a", "t", "_">>, exc |-> NoExc]
        ELSE [val |-> <<"u", "n", "k", "_">>, exc |-> NoExc]

get_default_label(ea) ==
    LET prefix == get_default_label_prefix(ea)
    IN  IF prefix.exc # NoExc THEN prefix
        ELSE [val |-> prefix.val \o Hex8(ea), exc |-> NoExc]

\* make_label without the test for an existing label
make_label_overwrite(prefix, ea) ==
    IF prefix = <<>>
    THEN LET p == get_default_label_prefix(ea)
         IN  IF p.exc # NoExc THEN [labels |-> labels, exc |-> p.exc]
             ELSE [labels |-> DictSet(labels, StrLabel(ea, p.val \o Hex8(ea))),
                   exc |-> NoExc]
    ELSE [labels |-> DictSet(labels, StrLabel(ea, prefix \o Hex8(ea))), exc |-> NoExc]

\* prefix = <<>> stands for a false prefix (None or "")
make_label(prefix, ea) ==
    IF InDict(labels, ea) THEN [labels |-> labels, exc |-> NoExc]
    ELSE IF prefix = <<>>
    THEN LET p == get_default_label_prefix(ea)
         IN  IF p.exc # NoExc THEN [labels |-> labels, exc |-> p.exc]
             ELSE [labels |-> DictSet(labels, StrLabel(ea, p.val \o Hex8(ea))),
                   exc |-> NoExc]
    ELSE [labels |-> DictSet(labels, StrLabel(ea, prefix \o Hex8(ea))), exc |-> NoExc]

make_auto_label(ea) ==
    IF InDict(labels, ea) THEN labels ELSE DictSet(labels, IntLabel(ea, ea))

\* none: the result is None
get_label(ea) ==
    IF ~InDict(labels, ea) THEN [none |-> TRUE, val |-> <<>>, exc |-> NoExc]
    ELSE LET label == DictGet(labels, ea)
         IN  IF label.int
             THEN LET p == get_default_label_prefix(ea)
                  IN  IF p.exc # NoExc THEN [none |-> FALSE, val |-> <<>>, exc |-> p.exc]
                      ELSE [none |-> FALSE, val |-> p.val \o Hex8(label.n),
                            exc |-> NoExc]
             ELSE [none |-> FALSE, val |-> label.s, exc |-> NoExc]

set_label(ea, label) == DictSet(labels, StrLabel(ea, label))

\* the str of the value x of the table
LabelStr(x) == IF x.int THEN get_default_label(x.n)
               ELSE [val |-> x.s, exc |-> NoExc]

get_label_set ==
    IF \E i \in 1..Len(labels) : LabelStr(labels[i]).exc # NoExc
    THEN [val |-> {}, exc |-> InvalidAddrException]
    ELSE [val |-> {LabelStr(labels[i]).val : i \in 1..Len(labels)}, exc |-> NoExc]

\* label, then label_1, label_2, ...
Suffixed(label, k) == IF k = 0 THEN label ELSE label \o <<"_">> \o DecStr(k)

\* make_unique_label that compares with the stored strings only
make_unique_label_stored_only(ea, label) ==
    LET existing == {labels[i].s : i \in {j \in 1..Len(labels) : ~labels[j].int}}
        free == {k \in 0 .. Cardinality(existing) : Suffixed(label, k) \notin existing}
        k0 == CHOOSE k \in free : \A j \in free : k <= j
    IN  [labels |-> DictSet(labels, StrLabel(ea, Suffixed(label, k0))),
         val |-> Suffixed(label, k0), exc |-> NoExc]

\* the loop ends at the first count whose string is not in existing; one of
\* 0 .. Cardinality(existing) is
make_unique_label(ea, label) ==
    LET existing == get_label_set
    IN  IF existing.exc # NoExc
        THEN [labels |-> labels, val |-> <<>>, exc |-> existing.exc]
        ELSE LET free == {k \in 0 .. Cardinality(existing.val) :
                             Suffixed(label, k) \notin existing.val}
                 k0 == CHOOSE k \in free : \A j \in free : k <= j
             IN  [labels |-> DictSet(labels, StrLabel(ea, Suffixed(label, k0))),
                  val |-> Suffixed(label, k0), exc |-> NoExc]

\* resolve_label that compares the stored strings only
RECURSIVE resolve_from_str_only(_, _)
resolve_from_str_only(i, label) ==
    IF i > Len(labels) THEN [none |-> TRUE, val |-> -1, exc |-> NoExc]
    ELSE IF ~labels[i].int /\ labels[i].s = label
         THEN [none |-> FALSE, val |-> labels[i].ea, exc |-> NoExc]
    ELSE resolve_from_str_only(i + 1, label)

\* the loop of resolve_label from the i-th item of the dict on
RECURSIVE resolve_from(_, _)
resolve_from(i, label) ==
    IF i > Len(labels) THEN [none |-> TRUE, val |-> -1, exc |-> NoExc]
    ELSE LET l == labels[i]
         IN  IF ~l.int /\ l.s = label
             THEN [none |-> FALSE, val |-> l.ea, exc |-> NoExc]
             ELSE IF l.int
             THEN LET d == get_default_label(l.n)
                  IN  IF d.exc # NoExc THEN [none |-> FALSE, val |-> -1, exc |-> d.exc]
                      ELSE IF d.val = label
                      THEN [none |-> FALSE, val |-> l.ea, exc |-> NoExc]
                      ELSE resolve_from(i + 1, label)
             ELSE resolve_from(i + 1, label)

resolve_label(label) == resolve_from(1, label)

----------------------------------------------------------------------------
(* The label operations and the flag edits of single bytes, over the two   *)
(* byte area, on addresses inside the area.                                *)

\* the strings callers pass as labels and as prefixes
UserLabels == { <<"f", "o", "o">>, <<"l", "o", "c", "_">> \o Hex8(0) }
Prefixes == { <<>>, <<"s", "u", "b", "_">> }

LabelAddr == {a \in AllAddr : InOneArea(a, 1)}

InitLabels ==
    /\ area_list = AnaArea
    /\ last_area = 0
    /\ InitTables
    /\ InitDriver
    /\ ret = [op |-> "init", ea |-> 0, arg |-> <<>>, val |-> <<>>, exc |-> NoExc]

\* ret holds the call: its name, its arguments, what it returned (<<>> for
\* None) and what it raised
LabelOp(op, ea, arg, val, newlabels, cache, exc) ==
    /\ labels' = newlabels
    /\ last_area' = cache
    /\ ret' = [op |-> op, ea |-> ea, arg |-> arg, val |-> val, exc |-> exc]
    /\ UNCHANGED <<area_list, comments, xrefs, arg_props, files, driver>>

\* the cache after get_label_set looked up the flags of every auto label
CacheAfterSet ==
    LET ints == {i \in 1..Len(labels) : labels[i].int}
    IN  IF ints = {} THEN last_area
        ELSE addr2area(labels[CHOOSE i \in ints : \A j \in ints : j <= i].n).cache

MakeLabel ==
    \E ea \in LabelAddr, prefix \in Prefixes :
        LabelOp("make_label", ea, prefix, <<>>, make_label(prefix, ea).labels,
                IF InDict(labels, ea) \/ prefix # <<>> THEN last_area
                ELSE addr2area(ea).cache,
                make_label(prefix, ea).exc)

MakeAutoLabel ==
    \E ea \in LabelAddr :
        LabelOp("make_auto_label", ea, <<>>, <<>>, make_auto_label(ea), last_area, NoExc)

SetLabel ==
    \E ea \in LabelAddr, label \in UserLabels :
        LabelOp("set_label", ea, label, <<>>, set_label(ea, label), last_area, NoExc)

MakeUniqueLabel ==
    \E ea \in LabelAddr, label \in UserLabels :
        LabelOp("make_unique_label", ea, label, make_unique_label(ea, label).val,
                make_unique_label(ea, label).labels,
                CacheAfterSet, make_unique_label(ea, label).exc)

ByteEdit ==
    \E addr \in LabelAddr, op \in {"make_code", "make_data", "make_undefined"} :
        /\ area_list' = (CASE op = "make_code" -> make_code(addr, 1)
                           [] op = "make_data" -> make_data(addr, 1)
                           [] OTHER -> make_undefined(addr, 1)).areas
        /\ last_area' = addr2area(addr).cache
        /\ ret' = [op |-> op, ea |-> addr, arg |-> <<>>, val |-> <<>>, exc |-> NoExc]
        /\ UNCHANGED <<tables, driver>>

NextLabels ==
    \/ MakeLabel
    \/ MakeAutoLabel
    \/ SetLabel
    \/ MakeUniqueLabel
    \/ ByteEdit

SpecLabels == InitLabels /\ [][NextLabels]_vars

\* the same without set_label
NextNoSetLabel ==
    \/ MakeLabel
    \/ MakeAutoLabel
    \/ MakeUniqueLabel
    \/ ByteEdit

SpecNoSetLabel == InitLabels /\ [][NextNoSetLabel]_vars

----------------------------------------------------------------------------
(* Claim about the label table, checked under SpecLabels *)

\* C10 as stated: for every address a that has a label,
\* resolve_label(get_label(a)) == a.
C10_ResolveInverts ==
    \A a \in AllAddr :
        InDict(labels, a) =>
            /\ get_label(a).exc = NoExc
            /\ resolve_label(get_label(a).val) =
                  [none |-> FALSE, val |-> a, exc |-> NoExc]

\* no other address has the label string of a
UniqueLabel(a) ==
    \A b \in AllAddr \ {a} :
        InDict(labels, b) => get_label(b).val # get_label(a).val

\* C10 amended: for every address a that has a label whose string, as
\* get_label returns it, is the label string of no other address,
\* resolve_label(get_label(a)) == a (the labelled addresses lie inside areas).
C10_ResolveInvertsUnique ==
    \A a \in AllAddr :
        (InDict(labels, a) /\ UniqueLabel(a)) =>
            /\ get_label(a).exc = NoExc
            /\ resolve_label(get_label(a).val) =
                  [none |-> FALSE, val |-> a, exc |-> NoExc]

\* an auto label and a user label, both unique, the auto label second in the
\* dict and on a byte whose flag is no longer UNK
C10_Witness ==
    /\ Len(labels) = 2
    /\ ~labels[1].int
    /\ labels[2].int
    /\ FlagAt(labels[2].ea) # UNK
    /\ \A a \in AllAddr : InDict(labels, a) => UniqueLabel(a)

----------------------------------------------------------------------------
(* The comment, operand property and cross reference tables.  A dict is    *)
(* the sequence of its items in insertion order; the items of the outer    *)
(* dicts are keyed by ea, those of the inner dicts by k.                   *)

KeyError == "KeyError"
ValueError == "ValueError"

Item(k, v) == [k |-> k, v |-> v]

KIn(d, k) == \E i \in 1..Len(d) : d[i].k = k

KGet(d, k) == d[CHOOSE i \in 1..Len(d) : d[i].k = k].v

\* d[k] = v
KSet(d, k, v) ==
    IF KIn(d, k)
    THEN [i \in 1..Len(d) |-> IF d[i].k = k THEN Item(k, v) ELSE d[i]]
    ELSE Append(d, Item(k, v))

\* del d[k]
KDel(d, k) == SelectSeq(d, LAMBDA e : e.k # k)

set_comment(ea, comm) == DictSet(comments, [ea |-> ea, c |-> comm])

set_arg_prop(ea, arg_no, prop, prop_val) ==
    LET t == IF InDict(arg_props, ea) THEN arg_props
             ELSE DictSet(arg_props, [ea |-> ea, d |-> <<>>])
        args == DictGet(t, ea).d
        args2 == IF KIn(args, arg_no) THEN args ELSE KSet(args, arg_no, <<>>)
        props == KSet(KGet(args2, arg_no), prop, prop_val)
    IN  DictSet(t, [ea |-> ea, d |-> KSet(args2, arg_no, props)])

\* add_xref that starts a new dict for to_ea at every call
add_xref_fresh(from_ea, to_ea, type) ==
    DictSet(xrefs, [ea |-> to_ea, d |-> <<Item(from_ea, type)>>])

add_xref(from_ea, to_ea, type) ==
    LET t == IF InDict(xrefs, to_ea) THEN xrefs
             ELSE DictSet(xrefs, [ea |-> to_ea, d |-> <<>>])
    IN  DictSet(t, [ea |-> to_ea, d |-> KSet(DictGet(t, to_ea).d, from_ea, type)])

del_xref(from_ea, to_ea, type) ==
    IF ~InDict(xrefs, to_ea) THEN [xrefs |-> xrefs, exc |-> NoExc]
    ELSE LET d == DictGet(xrefs, to_ea).d
         IN  IF ~KIn(d, from_ea) THEN [xrefs |-> xrefs, exc |-> KeyError]
             ELSE IF KGet(d, from_ea) # type
             THEN [xrefs |-> xrefs, exc |-> AssertionError]
             ELSE [xrefs |-> DictSet(xrefs, [ea |-> to_ea, d |-> KDel(d, from_ea)]),
                   exc |-> NoExc]

\* none: the result is None
get_xrefs(ea) ==
    IF InDict(xrefs, ea) THEN [none |-> FALSE, val |-> DictGet(xrefs, ea).d]
    ELSE [none |-> TRUE, val |-> <<>>]

----------------------------------------------------------------------------
(* Text: a stream is the sequence of its lines, a line the sequence of its *)
(* characters without the "\n" that ends it.                               *)

IsSpace(c) == c \in {" ", "\t", "\n", "\r"}

\* s.split(): the maximal runs of characters that are not whitespace
RECURSIVE SplitFrom(_, _, _, _)
SplitFrom(str, i, cur, acc) ==
    LET flush == IF cur = <<>> THEN acc ELSE Append(acc, cur)
    IN  IF i > Len(str) THEN flush
        ELSE IF IsSpace(str[i]) THEN SplitFrom(str, i + 1, <<>>, flush)
        ELSE SplitFrom(str, i + 1, Append(cur, str[i]), acc)

Split(str) == SplitFrom(str, 1, <<>>, <<>>)

\* s.lstrip() and s.rstrip()
RECURSIVE lstrip(_)
lstrip(str) ==
    IF str # <<>> /\ IsSpace(Head(str)) THEN lstrip(Tail(str)) ELSE str

RECURSIVE rstrip(_)
rstrip(str) ==
    IF str # <<>> /\ IsSpace(str[Len(str)])
    THEN rstrip(SubSeq(str, 1, Len(str) - 1)) ELSE str

\* the index of the first whitespace of str, Len(str) + 1 when it has none
RECURSIVE FirstSpace(_, _)
FirstSpace(str, i) ==
    IF i > Len(str) \/ IsSpace(str[i]) THEN i ELSE FirstSpace(str, i + 1)

\* s.split(None, 1): the first word and the rest, less the whitespace
\* before it
Split1(str) ==
    LET t == lstrip(str)
        j == FirstSpace(t, 1)
        rest == lstrip(SubSeq(t, j, Len(t)))
    IN  IF t = <<>> THEN <<>>
        ELSE IF rest = <<>> THEN << SubSeq(t, 1, j - 1) >>
        ELSE << SubSeq(t, 1, j - 1), rest >>

HexVal(c) == (CHOOSE i \in 1..16 : HexDigits[i] = c) - 1

IsHex(str) == str # <<>> /\ \A i \in 1..Len(str) : \E j \in 1..16 : HexDigits[j] = str[i]

IsDec(str) == str # <<>> /\ \A i \in 1..Len(str) : \E j \in 1..10 : HexDigits[j] = str[i]

\* int(s, 16) and int(s) of a string of digits
RECURSIVE ParseHex(_)
ParseHex(str) ==
    IF str = <<>> THEN 0
    ELSE 16 * ParseHex(SubSeq(str, 1, Len(str) - 1)) + HexVal(str[Len(str)])

RECURSIVE ParseDec(_)
ParseDec(str) ==
    IF str = <<>> THEN 0
    ELSE 10 * ParseDec(SubSeq(str, 1, Len(str) - 1)) + HexVal(str[Len(str)])

\* the keys of a dict in ascending order
RECURSIVE SortedSeq(_)
SortedSeq(S) ==
    IF S = {} THEN <<>>
    ELSE LET lo == CHOOSE x \in S : \A y \in S : x <= y
         IN  <<lo>> \o SortedSeq(S \ {lo})

Keys(d) == {d[i].ea : i \in 1..Len(d)}

InnerKeys(d) == {d[i].k : i \in 1..Len(d)}

\* the concatenation of the sequences of a sequence
RECURSIVE Flatten(_)
Flatten(ss) == IF ss = <<>> THEN <<>> ELSE Head(ss) \o Flatten(Tail(ss))

\* json.dumps of a str: quoted, with the quote and the backslash escaped
RECURSIVE JsonEscape(_)
JsonEscape(str) ==
    IF str = <<>> THEN <<>>
    ELSE (IF Head(str) \in {"\"", "\\"} THEN <<"\\", Head(str)>> ELSE <<Head(str)>>)
         \o JsonEscape(Tail(str))

json_dumps_str(str) == <<"\"">> \o JsonEscape(str) \o <<"\"">>

\* the characters of a JSON string from the i-th on, up to the closing
\* quote: [val, next] with next the index after the quote, 0 when the string
\* does not close
RECURSIVE JsonUnescape(_, _, _)
JsonUnescape(str, i, acc) ==
    IF i > Len(str) THEN [val |-> acc, next |-> 0]
    ELSE IF str[i] = "\"" THEN [val |-> acc, next |-> i + 1]
    ELSE IF str[i] = "\\"
         THEN IF i + 1 > Len(str) THEN [val |-> acc, next |-> 0]
              ELSE JsonUnescape(str, i + 2, Append(acc, str[i + 1]))
    ELSE JsonUnescape(str, i + 1, Append(acc, str[i]))

\* json.loads of the text of a str
json_loads_str(text) ==
    LET t == rstrip(lstrip(text))
        r == JsonUnescape(t, 2, <<>>)
    IN  IF t = <<>> \/ t[1] # "\"" \/ r.next # Len(t) + 1
        THEN [val |-> <<>>, exc |-> ValueError]
        ELSE [val |-> r.val, exc |-> NoExc]

\* json.dumps of a dict keyed by int: the keys become their decimal strings.
\* The document is kept as its items, not as its characters.
json_dumps_obj(d) == [i \in 1..Len(d) |-> Item(DecStr(d[i].k), d[i].v)]

\* {int(k): v for k, v in props.items()}
RECURSIVE IntKeys(_, _)
IntKeys(doc, acc) ==
    IF doc = <<>> THEN [val |-> acc, exc |-> NoExc]
    ELSE IF ~IsDec(Head(doc).k) THEN [val |-> acc, exc |-> ValueError]
    ELSE IntKeys(Tail(doc), KSet(acc, ParseDec(Head(doc).k), Head(doc).v))

\* binascii.hexlify and unhexlify
hexlify(bytes) ==
    Flatten([i \in 1..Len(bytes) |->
                <<HexDigits[(bytes[i] \div 16) + 1], HexDigits[(bytes[i] % 16) + 1]>>])

unhexlify(str) ==
    [i \in 1..(Len(str) \div 2) |-> 16 * HexVal(str[2 * i - 1]) + HexVal(str[2 * i])]

----------------------------------------------------------------------------
(* Persistence *)

\* the flags of a chunk line
ChunkSize == 32

save_labels ==
    LET ks == SortedSeq(Keys(labels))
    IN  [i \in 1..Len(ks) |->
            LET l == DictGet(labels, ks[i])
            IN  IF l.int /\ l.n = ks[i] THEN Hex8(ks[i])
                ELSE Hex8(ks[i]) \o <<" ">> \o (IF l.int THEN DecStr(l.n) ELSE l.s)]

RECURSIVE load_labels(_, _)
load_labels(stream, tab) ==
    IF stream = <<>> THEN [val |-> tab, exc |-> NoExc]
    ELSE LET vals == Split(Head(stream))
         IN  IF vals = <<>> THEN [val |-> tab, exc |-> IndexError]
             ELSE IF ~IsHex(vals[1]) THEN [val |-> tab, exc |-> ValueError]
             ELSE LET addr == ParseHex(vals[1])
                      label == IF Len(vals) > 1 THEN StrLabel(addr, vals[2])
                               ELSE IntLabel(addr, addr)
                  IN  load_labels(Tail(stream), DictSet(tab, label))

save_comments ==
    LET ks == SortedSeq(Keys(comments))
    IN  [i \in 1..Len(ks) |->
            Hex8(ks[i]) \o <<" ">> \o json_dumps_str(DictGet(comments, ks[i]).c)]

RECURSIVE load_comments(_, _)
load_comments(stream, tab) ==
    IF stream = <<>> THEN [val |-> tab, exc |-> NoExc]
    ELSE LET vals == Split1(Head(stream))
         IN  IF Len(vals) # 2 \/ ~IsHex(vals[1]) THEN [val |-> tab, exc |-> ValueError]
             ELSE LET comment == json_loads_str(vals[2])
                  IN  IF comment.exc # NoExc THEN [val |-> tab, exc |-> comment.exc]
                      ELSE load_comments(Tail(stream),
                               DictSet(tab, [ea |-> ParseHex(vals[1]),
                                             c |-> comment.val]))

\* a line is [addr, json]: the address as text, the JSON document as items
save_arg_props ==
    LET ks == SortedSeq(Keys(arg_props))
    IN  [i \in 1..Len(ks) |->
            [addr |-> Hex8(ks[i]), json |-> json_dumps_obj(DictGet(arg_props, ks[i]).d)]]

RECURSIVE load_arg_props(_, _)
load_arg_props(stream, tab) ==
    IF stream = <<>> THEN [val |-> tab, exc |-> NoExc]
    ELSE LET l == Head(stream)
             props == IntKeys(l.json, <<>>)
         IN  IF ~IsHex(l.addr) \/ props.exc # NoExc THEN [val |-> tab, exc |-> ValueError]
             ELSE load_arg_props(Tail(stream),
                      DictSet(tab, [ea |-> ParseHex(l.addr), d |-> props.val]))

save_xrefs ==
    LET ks == SortedSeq(Keys(xrefs))
    IN  Flatten([i \in 1..Len(ks) |->
            LET d == DictGet(xrefs, ks[i]).d
                fs == SortedSeq(InnerKeys(d))
            IN  << Hex8(ks[i]) >>
                \o [j \in 1..Len(fs) |-> Hex8(fs[j]) \o <<" ">> \o KGet(d, fs[j])]
                \o << <<>> >>])

\* stream.readline().rstrip() at line i: "" at the end of the file
ReadLine(stream, i) == IF i > Len(stream) THEN <<>> ELSE rstrip(stream[i])

\* the loops of load_xrefs from line i on; inner: inside the inner loop,
\* adding the references to addr
RECURSIVE load_xrefs_from(_, _, _, _, _)
load_xrefs_from(stream, i, inner, addr, tab) ==
    LET l == ReadLine(stream, i)
    IN  IF ~inner
        THEN IF l = <<>> THEN [val |-> tab, exc |-> NoExc]
             ELSE IF ~IsHex(l) THEN [val |-> tab, exc |-> ValueError]
             ELSE load_xrefs_from(stream, i + 1, TRUE, ParseHex(l), tab)
        ELSE IF l = <<>> THEN load_xrefs_from(stream, i + 1, FALSE, 0, tab)
             ELSE LET vals == Split(l)
                  IN  IF Len(vals) # 2 \/ ~IsHex(vals[1])
                      THEN [val |-> tab, exc |-> ValueError]
                      ELSE LET t == IF InDict(tab, addr) THEN tab
                                    ELSE DictSet(tab, [ea |-> addr, d |-> <<>>])
                               d == KSet(DictGet(t, addr).d, ParseHex(vals[1]), vals[2])
                           IN  load_xrefs_from(stream, i + 1, TRUE, addr,
                                   DictSet(t, [ea |-> addr, d |-> d]))

load_xrefs(stream) == load_xrefs_from(stream, 1, FALSE, 0, <<>>)

\* the chunk lines of flags from offset i on
RECURSIVE Chunks(_, _)
Chunks(flags, i) ==
    LET chunk == SubSeq(flags, i + 1, IF i + ChunkSize < Len(flags) THEN i + ChunkSize
                                      ELSE Len(flags))
    IN  IF chunk = <<>> THEN <<>>
        ELSE << hexlify(chunk) >> \o Chunks(flags, i + ChunkSize)

save_areas ==
    Flatten([n \in 1..Len(area_list) |->
        << Hex8(area_list[n].START) \o <<" ">> \o Hex8(area_list[n].END) >>
        \o Chunks(area_list[n].FLAGS, 0)
        \o << <<>> >>])

\* flags[i:i + len(l)] = l
SliceAssign(flags, i, l) ==
    SubSeq(flags, 1, IF i < Len(flags) THEN i ELSE Len(flags))
    \o l
    \o SubSeq(flags, i + Len(l) + 1, Len(flags))

\* the chunk loop of load_areas: [flags, next], next the line after the
\* blank one
RECURSIVE load_chunks(_, _, _, _)
load_chunks(stream, ln, flags, i) ==
    LET l == ReadLine(stream, ln)
    IN  IF l = <<>> THEN [flags |-> flags, next |-> ln + 1, exc |-> NoExc]
        ELSE IF ~IsHex(l) \/ Len(l) % 2 = 1
             THEN [flags |-> flags, next |-> ln, exc |-> ValueError]
        ELSE load_chunks(stream, ln + 1, SliceAssign(flags, i, unhexlify(l)),
                         i + Len(unhexlify(l)))

\* load_areas from area n and line ln on, into the areas as
RECURSIVE load_areas_from(_, _, _, _)
load_areas_from(stream, n, ln, as) ==
    IF n > Len(as) THEN [val |-> as, exc |-> NoExc]
    ELSE LET vals == Split(IF ln > Len(stream) THEN <<>> ELSE stream[ln])
         IN  IF \E k \in 1..Len(vals) : ~IsHex(vals[k])
             THEN [val |-> as, exc |-> ValueError]
             ELSE IF Len(vals) < 2 THEN [val |-> as, exc |-> IndexError]
             ELSE IF ~(as[n].START = ParseHex(vals[1]) /\ as[n].END = ParseHex(vals[2]))
             THEN [val |-> as, exc |-> AssertionError]
             ELSE LET r == load_chunks(stream, ln + 1, as[n].FLAGS, 0)
                      as2 == [as EXCEPT ![n].FLAGS = r.flags]
                  IN  IF r.exc # NoExc THEN [val |-> as2, exc |-> r.exc]
                      ELSE load_areas_from(stream, n + 1, r.next, as2)

load_areas(stream, as) == load_areas_from(stream, 1, 1, as)

----------------------------------------------------------------------------
(* A session: edits of the tables and of the flags, the five saves, and    *)
(* the five loads into a fresh address space with the same areas.  The     *)
(* area has two chunk lines of flags.                                      *)

PersistArea == << NewArea(0, ChunkSize) >>

PersistAddr == {0, ChunkSize}

PersistLabels == { <<"f", "o", "o">>, <<"a", " ", "b">> }

PersistComment == <<"s", "a", "y", " ", "\"", "h", "i", "\"">>

XrefTypes == { <<"c">>, <<"j">> }

InitPersist ==
    /\ area_list = PersistArea
    /\ last_area = 0
    /\ InitTables
    /\ InitDriver
    /\ ret = [op |-> "init", exc |-> NoExc]

Editing == ret.op \notin {"save", "load"}

Edit(op, exc) ==
    /\ Editing
    /\ ret' = [op |-> op, exc |-> exc]
    /\ UNCHANGED <<files, driver>>

PSetLabel ==
    \E ea \in PersistAddr, label \in PersistLabels :
        /\ Edit("set_label", NoExc)
        /\ labels' = set_label(ea, label)
        /\ UNCHANGED <<area_list, last_area, comments, xrefs, arg_props>>

PMakeAutoLabel ==
    \E ea \in PersistAddr :
        /\ Edit("make_auto_label", NoExc)
        /\ labels' = make_auto_label(ea)
        /\ UNCHANGED <<area_list, last_area, comments, xrefs, arg_props>>

SetComment ==
    /\ Edit("set_comment", NoExc)
    /\ comments' = set_comment(0, PersistComment)
    /\ UNCHANGED <<area_list, last_area, labels, xrefs, arg_props>>

SetArgProp ==
    \E arg_no \in {0, 1} :
        /\ Edit("set_arg_prop", NoExc)
        /\ arg_props' = set_arg_prop(0, arg_no, "type", 2)
        /\ UNCHANGED <<area_list, last_area, labels, comments, xrefs>>

AddXref ==
    \E from_ea \in PersistAddr :
        /\ Edit("add_xref", NoExc)
        /\ xrefs' = add_xref(from_ea, ChunkSize, <<"c">>)
        /\ UNCHANGED <<area_list, last_area, labels, comments, arg_props>>

DelXref ==
    \E from_ea \in PersistAddr, type \in XrefTypes :
        /\ Edit("del_xref", del_xref(from_ea, ChunkSize, type).exc)
        /\ xrefs' = del_xref(from_ea, ChunkSize, type).xrefs
        /\ UNCHANGED <<area_list, last_area, labels, comments, arg_props>>

PFlagEdit ==
    \E op \in {"make_code", "make_data"} :
        LET addr == IF op = "make_code" THEN 0 ELSE ChunkSize
        IN  /\ Edit(op, NoExc)
            /\ area_list' = (IF op = "make_code" THEN make_code(addr, 1)
                             ELSE make_data(addr, 1)).areas
            /\ last_area' = addr2area(addr).cache
            /\ UNCHANGED <<labels, comments, xrefs, arg_props>>

Save ==
    /\ Editing
    /\ files' = [labels |-> save_labels, comments |-> save_comments,
                 arg_props |-> save_arg_props, xrefs |-> save_xrefs,
                 areas |-> save_areas]
    /\ ret' = [op |-> "save", exc |-> NoExc]
    /\ UNCHANGED <<area_list, last_area, labels, comments, xrefs, arg_props, driver>>

\* the areas of the fresh address space: add_area with the same bounds
FreshAreas == [n \in 1..Len(area_list) |-> NewArea(area_list[n].START, area_list[n].END)]

\* ret holds the fresh address space after its loads
Load ==
    /\ ret.op = "save"
    /\ ret' = [op |-> "load",
               exc |-> <<load_labels(files.labels, <<>>).exc,
                         load_comments(files.comments, <<>>).exc,
                         load_arg_props(files.arg_props, <<>>).exc,
                         load_xrefs(files.xrefs).exc,
                         load_areas(files.areas, FreshAreas).exc>>,
               labels |-> load_labels(files.labels, <<>>).val,
               comments |-> load_comments(files.comments, <<>>).val,
               arg_props |-> load_arg_props(files.arg_props, <<>>).val,
               xrefs |-> load_xrefs(files.xrefs).val,
               area_list |-> load_areas(files.areas, FreshAreas).val]
    /\ UNCHANGED <<area_list, last_area, tables, driver>>

NextPersist ==
    \/ PSetLabel
    \/ PMakeAutoLabel
    \/ SetComment
    \/ SetArgProp
    \/ AddXref
    \/ DelXref
    \/ PFlagEdit
    \/ Save
    \/ Load

SpecPersist == InitPersist /\ [][NextPersist]_vars

----------------------------------------------------------------------------
(* Claim about persistence, checked under SpecPersist *)

\* a dict as the set of its items, the order of insertion forgotten
AsSet(d) == {d[i] : i \in 1..Len(d)}

\* a dict of dicts (of dicts, for the operand properties) likewise
AsSet2(d) == {[ea |-> d[i].ea, d |-> AsSet(d[i].d)] : i \in 1..Len(d)}

AsSet3(d) ==
    {[ea |-> d[i].ea,
      d |-> {Item(d[i].d[j].k, AsSet(d[i].d[j].v)) : j \in 1..Len(d[i].d)}] :
        i \in 1..Len(d)}

LabelsRestored == AsSet(ret.labels) = AsSet(labels)
CommentsRestored == AsSet(ret.comments) = AsSet(comments)
ArgPropsRestored == AsSet3(ret.arg_props) = AsSet3(arg_props)
XrefsRestored == AsSet2(ret.xrefs) = AsSet2(xrefs)
FlagsRestored == ret.area_list = area_list

\* C9 as stated: after the five saves and the five loads into a fresh
\* address space with the same areas, the loaded labels, comments, operand
\* properties, cross references and flags equal the saved ones.
C9_RoundTrip ==
    ret.op = "load" =>
        /\ \A i \in 1..5 : ret.exc[i] = NoExc
        /\ LabelsRestored
        /\ CommentsRestored
        /\ ArgPropsRestored
        /\ XrefsRestored
        /\ FlagsRestored

----------------------------------------------------------------------------
(* Claims about the label operations *)

\* C11: in every state reached by make_label, make_auto_label,
\* make_unique_label and flag edits, without set_label, no two distinct
\* addresses have the same label string as returned by get_label.
C11_LabelsUnique ==
    \A a, b \in AllAddr :
        (a # b /\ InDict(labels, a) /\ InDict(labels, b)) =>
            get_label(a).val # get_label(b).val

\* the label strings of the table, as get_label returns them
LabelStrings == {get_label(a).val : a \in {b \in AllAddr : InDict(labels, b)}}

\* base_k
WithSuffix(base, k) == base \o <<"_">> \o DecStr(k)

\* C12: make_unique_label(ea, base) stores at ea and returns base when base
\* is no label string of the table at the time of the call, and otherwise
\* base_k for the smallest k >= 1 such that base_k is none.
C12_UniqueLabelResult ==
    [][ret'.op = "make_unique_label" =>
        LET base == ret'.arg
            ks == {k \in 1 .. (Cardinality(LabelStrings) + 1) :
                      WithSuffix(base, k) \notin LabelStrings}
            expected == IF base \notin LabelStrings THEN base
                        ELSE WithSuffix(base, CHOOSE k \in ks : \A j \in ks : k <= j)
        IN  /\ ret'.exc = NoExc
            /\ ret'.val = expected
            /\ InDict(labels', ret'.ea)
            /\ DictGet(labels', ret'.ea) = StrLabel(ret'.ea, expected)]_vars

\* make_unique_label has returned foo_2: foo and foo_1 were label strings
C12_Witness ==
    /\ ret.op = "make_unique_label"
    /\ ret.val = <<"f", "o", "o", "_", "2">>
    /\ DictGet(labels, ret.ea).s = ret.val

\* C13: make_label(prefix, ea) and make_auto_label(ea) on an address that
\* has a label, of either form, leave the label table unchanged for any
\* prefix; set_label(ea, s) always replaces the label stored at ea, and
\* changes no other.
C13_MakeLabelIdempotent ==
    [][/\ (ret'.op \in {"make_label", "make_auto_label"} /\ InDict(labels, ret'.ea))
            => labels' = labels
       /\ ret'.op = "set_label" =>
            /\ InDict(labels', ret'.ea)
            /\ DictGet(labels', ret'.ea) = StrLabel(ret'.ea, ret'.arg)
            /\ \A a \in AllAddr \ {ret'.ea} :
                  /\ InDict(labels', a) <=> InDict(labels, a)
                  /\ InDict(labels, a) => DictGet(labels', a) = DictGet(labels, a)]_vars

\* make_label with a prefix has been called on an address that holds an
\* auto label, which make_label never stores
C13_Witness ==
    /\ ret.op = "make_label"
    /\ ret.arg # <<>>
    /\ InDict(labels, ret.ea)
    /\ DictGet(labels, ret.ea).int

\* C14: for an address a holding an auto label, get_label(a) is loc_ + 8-hex
\* of a when the flag at a is CODE, dat_ + 8-hex of a when a is data (the
\* DATA bit is set, as after make_data(a, 1) on a CODE byte), and unk_ +
\* 8-hex of a otherwise, whatever the flag was when the label was made.
C14_AutoLabelFollowsFlags ==
    \A a \in AllAddr :
        (InDict(labels, a) /\ DictGet(labels, a).int) =>
            /\ get_label(a).exc = NoExc
            /\ get_label(a).val =
                  (IF BitAnd(FlagAt(a), DATA) # 0 THEN <<"d", "a", "t", "_">>
                   ELSE IF FlagAt(a) = CODE THEN <<"l", "o", "c", "_">>
                   ELSE <<"u", "n", "k", "_">>) \o Hex8(a)

\* make_data(a, 1) has just run on a CODE byte that holds an auto label
C14_Witness ==
    /\ ret.op = "make_data"
    /\ InDict(labels, ret.ea)
    /\ DictGet(labels, ret.ea).int
    /\ BitAnd(FlagAt(ret.ea), CODE) # 0
    /\ get_label(ret.ea).val = <<"d", "a", "t", "_">> \o Hex8(ret.ea)

----------------------------------------------------------------------------
(* The cross reference operations on their own, over the two byte area *)

InitXref ==
    /\ area_list = AnaArea
    /\ last_area = 0
    /\ InitTables
    /\ InitDriver
    /\ ret = [op |-> "init", f |-> 0, t |-> 0, type |-> <<>>, exc |-> NoExc]

XrefAdd ==
    \E from_ea \in LabelAddr, to_ea \in LabelAddr, type \in XrefTypes :
        /\ xrefs' = add_xref(from_ea, to_ea, type)
        /\ ret' = [op |-> "add_xref", f |-> from_ea, t |-> to_ea, type |-> type,
                   exc |-> NoExc]
        /\ UNCHANGED <<area_list, last_area, labels, comments, arg_props, files, driver>>

XrefDel ==
    \E from_ea \in LabelAddr, to_ea \in LabelAddr, type \in XrefTypes :
        /\ xrefs' = del_xref(from_ea, to_ea, type).xrefs
        /\ ret' = [op |-> "del_xref", f |-> from_ea, t |-> to_ea, type |-> type,
                   exc |-> del_xref(from_ea, to_ea, type).exc]
        /\ UNCHANGED <<area_list, last_area, labels, comments, arg_props, files, driver>>

NextXref ==
    \/ XrefAdd
    \/ XrefDel

SpecXref == InitXref /\ [][NextXref]_vars

----------------------------------------------------------------------------
(* Claim about the cross references, checked under SpecXref *)

\* the tag of the edge from f to t in the table x, <<>> when there is none
EdgeOf(x, f, t) ==
    IF InDict(x, t) /\ KIn(DictGet(x, t).d, f) THEN KGet(DictGet(x, t).d, f) ELSE <<>>

\* the number of entries of source f in the mapping of t
EdgeCount(x, f, t) ==
    IF ~InDict(x, t) THEN 0
    ELSE Cardinality({i \in 1..Len(DictGet(x, t).d) : DictGet(x, t).d[i].k = f})

OtherEdgesKept ==
    \A f \in AllAddr, t \in AllAddr :
        (f # ret'.f \/ t # ret'.t) => EdgeOf(xrefs', f, t) = EdgeOf(xrefs, f, t)

\* C15: after add_xref(f, t, tag), get_xrefs(t)[f] == tag, with one entry
\* for the pair and every other edge unchanged; after del_xref(f, t, tag) of
\* an edge that is there with that tag, f is no source in get_xrefs(t) and
\* every other edge is unchanged.
C15_XrefAddDel ==
    [][/\ ret'.op = "add_xref" =>
            /\ EdgeOf(xrefs', ret'.f, ret'.t) = ret'.type
            /\ EdgeCount(xrefs', ret'.f, ret'.t) = 1
            /\ OtherEdgesKept
       /\ (ret'.op = "del_xref" /\ EdgeOf(xrefs, ret'.f, ret'.t) = ret'.type) =>
            /\ ret'.exc = NoExc
            /\ EdgeCount(xrefs', ret'.f, ret'.t) = 0
            /\ OtherEdgesKept]_vars

\* an edge has been deleted and another edge to the same target is left
C15_Witness ==
    /\ ret.op = "del_xref"
    /\ ret.exc = NoExc
    /\ EdgeOf(xrefs, ret.f, ret.t) = <<>>
    /\ \E f \in AllAddr : EdgeOf(xrefs, f, ret.t) # <<>>

----------------------------------------------------------------------------
(* The rendering model.  A line is [ea, kind, virtual, subno, from, str]:  *)
(* from is the source of an Xref, str the text of a Literal.               *)

\* How much bytes may a single disasm object occupy
MAX_UNIT_SIZE == 4

Line(ea, kind, virtual, from, str) ==
    [ea |-> ea, kind |-> kind, virtual |-> virtual, subno |-> -1, from |-> from,
     str |-> str]

\* Model(target_addr, target_subno)
Model(target_addr, target_subno) ==
    [lines |-> <<>>, cnt |-> 0, subcnt |-> 0, last_addr |-> -1, addr2line |-> <<>>,
     target_addr |-> target_addr, target_subno |-> target_subno,
     target_addr_lineno_0 |-> -1, target_addr_lineno |-> -1,
     target_addr_lineno_real |-> -1]

\* an add_line whose sub-counter is never reset
add_line_no_reset(model, addr, line) ==
    LET real == IF line.virtual THEN <<>> ELSE (<<addr, -1>> :> model.cnt)
    IN  [model EXCEPT
            !.last_addr = addr,
            !.lines = Append(@, [line EXCEPT !.subno = model.subcnt]),
            !.addr2line = real @@ (<<addr, model.subcnt>> :> model.cnt) @@ @,
            !.cnt = @ + 1,
            !.subcnt = @ + 1]

\* m is the value of model
add_line(model, addr, line) ==
    LET add(m) ==
            LET subcnt == IF addr # m.last_addr THEN 0 ELSE m.subcnt
                hit == addr = m.target_addr
                real == IF line.virtual THEN <<>> ELSE (<<addr, -1>> :> m.cnt)
            IN  [m EXCEPT
                    !.last_addr = addr,
                    !.target_addr_lineno_0 = IF hit /\ subcnt = 0 THEN m.cnt ELSE @,
                    !.target_addr_lineno = IF hit /\ subcnt = m.target_subno
                                           THEN m.cnt ELSE @,
                    !.target_addr_lineno_real = IF hit /\ ~line.virtual THEN m.cnt ELSE @,
                    !.lines = Append(@, [line EXCEPT !.subno = subcnt]),
                    !.addr2line = real @@ (<<addr, subcnt>> :> m.cnt) @@ @,
                    !.cnt = @ + 1,
                    !.subcnt = subcnt + 1]
    IN  CHOOSE r \in {add(m) : m \in {model}} : TRUE

\* the Xref lines of addr, by ascending source
RECURSIVE add_xref_lines(_, _, _, _)
add_xref_lines(model, addr, d, froms) ==
    IF froms = <<>> THEN model
    ELSE add_xref_lines(add_line(model, addr,
                                 Line(addr, "Xref", TRUE, Head(froms), KGet(d, Head(froms)))),
                        addr, d, Tail(froms))

\* the object of the unit at offset i of area n: [kind, sz, exc, looked],
\* looked when the address space resolved addr for it
unit_at(n, i) ==
    LET a == area_list[n]
        addr == a.START + i
        f == a.FLAGS[i + 1]
        run == ScanCont(a.FLAGS, i + 1, DATA_CONT)
    IN  IF f = UNK THEN [kind |-> "Unknown", sz |-> 1, exc |-> NoExc, looked |-> FALSE]
        ELSE IF f = DATA
        THEN IF run = -1
             THEN [kind |-> "Data", sz |-> 0, exc |-> IndexError, looked |-> FALSE]
             ELSE [kind |-> "Data", sz |-> 1 + run, exc |-> get_data(addr, 1 + run).exc,
                   looked |-> TRUE]
        ELSE IF f = STR
        THEN IF run = -1
             THEN [kind |-> "String", sz |-> 0, exc |-> IndexError, looked |-> FALSE]
             ELSE [kind |-> "String", sz |-> 1 + run, exc |-> NoExc, looked |-> FALSE]
        ELSE IF f = CODE
        THEN [kind |-> "Instruction", sz |-> ana(addr).val, exc |-> ana(addr).exc,
              looked |-> TRUE]
        ELSE [kind |-> "none", sz |-> 0, exc |-> AssertionError, looked |-> FALSE]

StartLiteral(a) ==
    Line(a.START, "Literal", TRUE, -1, <<"; Start of 0x">> \o HexStr(a.START) \o <<" area">>)

EndLiteral(a) ==
    Line(a.END, "Literal", TRUE, -1, <<"; End of 0x">> \o HexStr(a.START) \o <<" area">>)

\* one pass of the loops of render_partial.  st is [model, n, i, num_lines,
\* cache, exc, done]: the area counted from 1 and the offset in it, and done
\* once render_partial has returned or raised.  An instruction of size 0 is
\* rendered again and again: until the budget reaches zero, or without end
\* when it is below.
render_step(st, target_addr) ==
    IF st.n > Len(area_list) THEN [st EXCEPT !.done = TRUE]
    ELSE LET a == area_list[st.n]
         IN  IF st.i >= Len(a.FLAGS)
             THEN LET m0 == add_line(st.model, a.END, EndLiteral(a))
                  IN  IF st.n + 1 > Len(area_list)
                      THEN [st EXCEPT !.model = m0, !.done = TRUE]
                      ELSE [st EXCEPT !.model = add_line(m0, area_list[st.n + 1].START,
                                                         StartLiteral(area_list[st.n + 1])),
                                      !.n = st.n + 1, !.i = 0]
             ELSE LET addr == a.START + st.i
                      budget == IF target_addr >= 0 /\ addr < target_addr
                                THEN st.num_lines + 1 ELSE st.num_lines
                      xr == get_xrefs(addr)
                      m1 == IF xr.none THEN st.model
                            ELSE add_xref_lines(st.model, addr, xr.val,
                                                SortedSeq(InnerKeys(xr.val)))
                      label == get_label(addr)
                      m2 == IF label.none \/ label.val = <<>> THEN m1
                            ELSE add_line(m1, addr, Line(addr, "Label", TRUE, -1, <<>>))
                      c1 == IF InDict(labels, addr) /\ DictGet(labels, addr).int
                            THEN st.n ELSE st.cache
                      u == unit_at(st.n, st.i)
                      c2 == IF u.looked THEN st.n ELSE c1
                      m3 == add_line(m2, addr, Line(addr, u.kind, FALSE, -1, <<>>))
                  IN  IF label.exc # NoExc
                      THEN [st EXCEPT !.model = m1, !.cache = c1, !.exc = label.exc,
                                      !.done = TRUE]
                      ELSE IF u.exc # NoExc
                      THEN [st EXCEPT !.model = m2, !.cache = c2, !.exc = u.exc,
                                      !.done = TRUE]
                      ELSE IF budget - 1 = 0
                      THEN [st EXCEPT !.model = m3, !.cache = c2, !.num_lines = 0,
                                      !.done = TRUE]
                      ELSE IF u.sz = 0 /\ budget - 1 < 0
                      THEN [st EXCEPT !.model = m3, !.cache = c2, !.exc = "MemoryError",
                                      !.done = TRUE]
                      ELSE [st EXCEPT !.model = m3, !.cache = c2, !.i = st.i + u.sz,
                                      !.num_lines = budget - 1]

\* the passes up to the return; s is the value of the next st
RECURSIVE render_loop(_, _)
render_loop(st, target_addr) ==
    IF st.done THEN st
    ELSE CHOOSE r \in {render_loop(s, target_addr) : s \in {render_step(st, target_addr)}} :
             TRUE

\* area_no counts from 0, as in the source: [model, cache, exc]
render_partial(model, area_no, offset, num_lines, target_addr) ==
    render_loop([model |-> model, n |-> area_no + 1, i |-> offset,
                 num_lines |-> num_lines, cache |-> last_area, exc |-> NoExc,
                 done |-> FALSE], target_addr)

\* the backwards walk of render_partial_around over the areas before the
\* one of addr: [off, area], the area counted from 1
RECURSIVE seek_back(_, _, _)
seek_back(off, area_no, area) ==
    IF area_no < 1 THEN [off |-> off, area |-> area]
    ELSE LET sz == area_list[area_no].END - area_list[area_no].START + 1
         IN  IF off + sz >= 0 THEN [off |-> off + sz, area |-> area_no]
             ELSE seek_back(off + sz, area_no - 1, area_no)

\* [none, model, cache, exc]: none when the result is None; after(res) is the
\* part of the function behind the call of render_partial
render_partial_around(addr, subno, context_lines) ==
    LET r == addr2area(addr)
        off0 == r.off - context_lines * MAX_UNIT_SIZE
        back == IF off0 < 0 THEN seek_back(off0, r.area - 1, r.area)
                ELSE [off |-> off0, area |-> r.area]
        off1 == IF back.off < 0 THEN 0 ELSE back.off
        off == adjust_offset_reverse(off1, area_list[back.area])
        after(res) ==
            IF res.exc # NoExc
            THEN [none |-> FALSE, model |-> res.model, cache |-> res.cache,
                  exc |-> res.exc]
            ELSE IF ~(res.model.target_addr_lineno_0 >= 0)
            THEN [none |-> FALSE, model |-> res.model, cache |-> res.cache,
                  exc |-> AssertionError]
            ELSE [none |-> FALSE,
                  model |-> IF res.model.target_addr_lineno = -1
                            THEN [res.model EXCEPT !.target_addr_lineno =
                                                       res.model.target_addr_lineno_0]
                            ELSE res.model,
                  cache |-> res.cache, exc |-> NoExc]
    IN  IF r.area = 0
        THEN [none |-> TRUE, model |-> Model(addr, subno), cache |-> r.cache,
              exc |-> NoExc]
        ELSE CHOOSE x \in {after(res) : res \in
                 {render_loop([model |-> Model(addr, subno), n |-> back.area, i |-> off,
                               num_lines |-> context_lines, cache |-> r.cache,
                               exc |-> NoExc, done |-> FALSE], addr)}} : TRUE

----------------------------------------------------------------------------
(* Rendering as actions.  Two areas, [0, 2] and [4, 4], added in either    *)
(* order; the processor decodes two bytes at 0 and one byte elsewhere.     *)
(* The edits: data at 0 (two bytes) and at 2 (the last byte of its area),  *)
(* code at 0, labels and cross references at 0.                            *)

RenderAreas == { << NewArea(0, 2), NewArea(4, 4) >>, << NewArea(4, 4), NewArea(0, 2) >> }

InitRender ==
    /\ area_list \in RenderAreas
    /\ last_area = 0
    /\ InitTables
    /\ analisys_stack = <<>>
    /\ pc = "idle"
    /\ limit = 0
    /\ cnt = 0
    /\ proc = [a \in AllAddr |-> IF a = 0 THEN 2 ELSE 1]
    /\ decoded = [a \in AllAddr |-> 0]
    /\ pend = [a \in AllAddr |-> 0]
    /\ ret = [op |-> "init", args |-> <<>>, val |-> <<>>, exc |-> NoExc]

\* ret holds the call: its name, for a query its arguments and what it
\* returned, and what it raised; what adjust_offset_reverse returned is val.off
RenderFlagEdit ==
    \E e \in {<<"make_data", 0, 2>>, <<"make_data", 2, 1>>, <<"make_code", 0, ana(0).val>>} :
        /\ area_list' = (IF e[1] = "make_data" THEN make_data(e[2], e[3])
                         ELSE make_code(e[2], e[3])).areas
        /\ last_area' = addr2area(e[2]).cache
        /\ ret' = [op |-> e[1], args |-> <<>>, val |-> <<>>, exc |-> NoExc]
        /\ UNCHANGED <<tables, driver>>

RenderLabelEdit ==
    \E label \in {<<"f", "o", "o">>, <<>>, <<"a", "u", "t", "o">>} :
        /\ labels' = IF label = <<"a", "u", "t", "o">> THEN make_auto_label(0)
                     ELSE set_label(0, label)
        /\ ret' = [op |-> "label", args |-> <<>>, val |-> <<>>, exc |-> NoExc]
        /\ UNCHANGED <<area_list, last_area, comments, xrefs, arg_props, files, driver>>

RenderAddXref ==
    \E from_ea \in {2, 4} :
        /\ xrefs' = add_xref(from_ea, 0, <<"j">>)
        /\ ret' = [op |-> "add_xref", args |-> <<>>, val |-> <<>>, exc |-> NoExc]
        /\ UNCHANGED <<area_list, last_area, labels, comments, arg_props, files, driver>>

AdjustOffsetReverse ==
    \E n \in 1..Len(area_list) :
        \E off \in 0 .. (area_list[n].END - area_list[n].START) :
            /\ ret' = [op |-> "adjust_offset_reverse", args |-> <<off, n>>,
                       val |-> [off |-> adjust_offset_reverse(off, area_list[n])],
                       exc |-> NoExc]
            /\ UNCHANGED <<area_list, last_area, tables, driver>>

\* what get_unit_size returned is val.sz
GetUnitSize ==
    \E addr \in {0, 2, 4} :
        /\ ret' = [op |-> "get_unit_size", args |-> <<addr>>,
                   val |-> [sz |-> get_unit_size(addr).val],
                   exc |-> get_unit_size(addr).exc]
        /\ last_area' = addr2area(addr).cache
        /\ UNCHANGED <<area_list, tables, driver>>

\* render_partial(Model(-1), area_no, offset, num_lines)
RenderPartial ==
    \E area_no \in 0..1, offset \in 0..1, num_lines \in 0..MaxLines :
        \E res \in {render_partial(Model(-1, 0), area_no, offset, num_lines, -1)} :
            /\ last_area' = res.cache
            /\ ret' = [op |-> "render_partial", args |-> <<area_no, offset, num_lines>>,
                       val |-> res.model, exc |-> res.exc]
            /\ UNCHANGED <<area_list, tables, driver>>

\* val.none when render_partial_around returned None
RenderPartialAround ==
    \E addr \in {0, 1, 3, 4}, subno \in 0..1, context_lines \in 0..MaxContext :
        \E res \in {render_partial_around(addr, subno, context_lines)} :
            /\ last_area' = res.cache
            /\ ret' = [op |-> "render_partial_around",
                       args |-> <<addr, subno, context_lines>>,
                       val |-> [none |-> res.none, model |-> res.model],
                       exc |-> res.exc]
            /\ UNCHANGED <<area_list, tables, driver>>

NextRender ==
    \/ RenderFlagEdit
    \/ RenderLabelEdit
    \/ RenderAddXref
    \/ AdjustOffsetReverse
    \/ GetUnitSize
    \/ RenderPartial
    \/ RenderPartialAround

SpecRender == InitRender /\ [][NextRender]_vars

----------------------------------------------------------------------------
(* Claims about the walk back and the rendering.                            *)

ContFlags == {CODE_CONT, DATA_CONT}

\* C16: adjust_offset_reverse(off, area) returns the largest r <= off with
\* r = 0 or the flag at r not a continuation flag: r is such an offset and
\* every offset above it up to off is a continuation; the call changes
\* nothing of the address space.
C16_AdjustOffsetReverse ==
    [][ret'.op = "adjust_offset_reverse" =>
        LET off == ret'.args[1]
            flags == area_list[ret'.args[2]].FLAGS
            r == ret'.val.off
        IN  /\ r \in 0..off
            /\ r = 0 \/ flags[r + 1] \notin ContFlags
            /\ \A q \in (r + 1)..off : flags[q + 1] \in ContFlags
            /\ UNCHANGED <<area_list, last_area, tables>>]_vars

\* the offset inside a two-byte data unit came back as the offset of its head
C16_Witness ==
    /\ ret.op = "adjust_offset_reverse"
    /\ ret.args[1] = 1
    /\ ret.val.off = 0
    /\ area_list[ret.args[2]].FLAGS[1] = DATA
    /\ area_list[ret.args[2]].FLAGS[2] = DATA_CONT

\* the indices of the lines of units: the non-virtual ones
UnitIdx(L) == {k \in 1..Len(L) : ~L[k].virtual}

\* the lines of the unit at index k of L are in order and indexed: the Xref
\* lines of its address by ascending source, the Label line when the address
\* is a key of labels, the unit, and addr2line[(addr, -1)] is the unit's index
UnitInOrder(m, k) ==
    LET L == m.lines
        addr == L[k].ea
        xr == get_xrefs(addr)
        X == IF xr.none THEN <<>> ELSE SortedSeq(InnerKeys(xr.val))
        nl == IF InDict(labels, addr) THEN 1 ELSE 0
        first == k - nl - Len(X)
    IN  /\ first >= 1
        /\ \A j \in 1..Len(X) :
               /\ L[first + j - 1].kind = "Xref"
               /\ L[first + j - 1].ea = addr
               /\ L[first + j - 1].from = X[j]
        /\ nl = 1 => L[k - 1].kind = "Label" /\ L[k - 1].ea = addr
        /\ {j \in 1..Len(L) : L[j].ea = addr /\ L[j].kind \in {"Xref", "Label"}}
               = first..(k - 1)
        /\ m.addr2line[<<addr, -1>>] = k - 1

\* C17: in the lines render_partial produced, every unit address has its
\* Xref lines by ascending source, then its Label line if it has a label,
\* then exactly one non-virtual object, indexed by addr2line[(addr, -1)], and
\* unit addresses increase strictly along the sequence.
C17_RenderOrder ==
    (ret.op = "render_partial" /\ ret.exc = NoExc) =>
        LET L == ret.val.lines
        IN  /\ \A j, k \in UnitIdx(L) : j < k => L[j].ea < L[k].ea
            /\ \A k \in UnitIdx(L) : UnitInOrder(ret.val, k)

\* the areas were added by ascending address
AreasAscending ==
    \A n \in 1..(Len(area_list) - 1) : area_list[n].END < area_list[n + 1].START

\* no label is the empty string
NoEmptyLabel == \A i \in 1..Len(labels) : labels[i].int \/ labels[i].s # <<>>

\* the order of C17 for areas added by ascending address and non-empty labels
RenderOrderAscending == (AreasAscending /\ NoEmptyLabel) => C17_RenderOrder

\* C18: for an address inside an area render_partial_around returns a model
\* with target_addr_lineno_0 >= 0, its assertion never failing, and
\* target_addr_lineno is the line of the requested subno at addr when there
\* is one and target_addr_lineno_0 otherwise.
C18_AroundPostcondition ==
    (ret.op = "render_partial_around" /\ ~ret.val.none) =>
        /\ ret.exc # AssertionError
        /\ ret.exc = NoExc =>
               LET m == ret.val.model
                   want == {k \in 1..Len(m.lines) : /\ m.lines[k].ea = ret.args[1]
                                                    /\ m.lines[k].subno = ret.args[2]}
               IN  /\ m.target_addr_lineno_0 >= 0
                   /\ IF want = {} THEN m.target_addr_lineno = m.target_addr_lineno_0
                      ELSE m.target_addr_lineno + 1 \in want

\* line k of L is the literal lit, whatever its subno
IsLiteral(L, k, lit) ==
    /\ k \in 1..Len(L)
    /\ L[k].kind = "Literal"
    /\ L[k].ea = lit.ea
    /\ L[k].str = lit.str

\* C19: a rendering that starts at offset 0 of an area has the start
\* delimiter of that area as its first line, and the end delimiter of the
\* area among its lines when the area was rendered to its end (as it is with
\* a budget of 0, which never stops the rendering).
C19_StartDelimiterFirst ==
    (ret.op = "render_partial" /\ ret.args[2] = 0 /\ ret.exc = NoExc) =>
        LET L == ret.val.lines
            a == area_list[ret.args[1] + 1]
        IN  /\ IsLiteral(L, 1, StartLiteral(a))
            /\ ret.args[3] = 0 => \E k \in 1..Len(L) : IsLiteral(L, k, EndLiteral(a))

\* the rendering went through all areas: its last line is the end delimiter
\* of the last area
Exhausted(L) == IsLiteral(L, Len(L), EndLiteral(area_list[Len(area_list)]))

\* C20: render_partial with num_lines = n adds no more than n lines at
\* addresses at or after the target (all lines when there is no target),
\* unless all areas are exhausted first.
C20_LineBudget ==
    /\ (ret.op = "render_partial" /\ ret.exc = NoExc) =>
           \/ Len(ret.val.lines) <= ret.args[3]
           \/ Exhausted(ret.val.lines)
    /\ (ret.op = "render_partial_around" /\ ~ret.val.none /\ ret.exc = NoExc) =>
           LET L == ret.val.model.lines
           IN  \/ Cardinality({k \in 1..Len(L) : L[k].ea >= ret.args[1]}) <= ret.args[3]
               \/ Exhausted(L)

----------------------------------------------------------------------------
(* The area cache as actions.  Areas are added one at a time, in any order, *)
(* each disjoint from the ones already there as the caller of add_area      *)
(* guarantees; addresses in and between them are resolved.                  *)

CacheAreas == {<<0, 1>>, <<1, 2>>, <<2, 3>>, <<5, 5>>}

CacheAddr == 0..6

InitCache ==
    /\ area_list = <<>>
    /\ last_area = 0
    /\ InitTables
    /\ InitDriver
    /\ ret = [op |-> "init", args |-> <<>>, val |-> <<>>, exc |-> NoExc]

AddArea ==
    \E se \in CacheAreas :
        /\ \A k \in 1..Len(area_list) :
               se[2] < area_list[k].START \/ area_list[k].END < se[1]
        /\ area_list' = Append(area_list, NewArea(se[1], se[2]))
        /\ ret' = [op |-> "add_area", args |-> se, val |-> <<>>, exc |-> NoExc]
        /\ UNCHANGED <<last_area, tables, driver>>

\* val is [off, area]: the offset and the number in area_list of the area
\* returned, area = 0 for (None, None); held is the number of the area the
\* cache held at the call, 0 for none
Addr2Area ==
    \E addr \in CacheAddr :
        /\ ret' = [op |-> "addr2area", args |-> <<addr>>,
                   val |-> [off |-> addr2area(addr).off, area |-> addr2area(addr).area],
                   held |-> last_area, exc |-> NoExc]
        /\ last_area' = addr2area(addr).cache
        /\ UNCHANGED <<area_list, tables, driver>>

NextCache ==
    \/ AddArea
    \/ Addr2Area

SpecCache == InitCache /\ [][NextCache]_vars

----------------------------------------------------------------------------
(* Claims about the index of the lines, the unit walks and the area cache.  *)

\* a rendering has acted: render_partial, or a render_partial_around that
\* did not return None
Rendered ==
    \/ ret.op = "render_partial"
    \/ ret.op = "render_partial_around" /\ ~ret.val.none

\* the model it rendered into
RenderedModel == IF ret.op = "render_partial" THEN ret.val ELSE ret.val.model

\* C21: after a render into a fresh Model the (address, sub-line) index is a
\* bijection onto the lines: addr2line[(lines[k].ea, lines[k].subno)] = k for
\* every line index k, no other (address, sub-line) key exists, and the subno
\* of a line is one more than that of the line before it when both have the
\* same address and 0 otherwise.
C21_Addr2LineBijection ==
    Rendered =>
        LET m == RenderedModel
            L == m.lines
        IN  /\ \A k \in 1..Len(L) :
                   /\ <<L[k].ea, L[k].subno>> \in DOMAIN m.addr2line
                   /\ m.addr2line[<<L[k].ea, L[k].subno>>] = k - 1
                   /\ L[k].subno = IF k > 1 /\ L[k - 1].ea = L[k].ea
                                   THEN L[k - 1].subno + 1 ELSE 0
            /\ {key \in DOMAIN m.addr2line : key[2] >= 0}
                   = {<<L[k].ea, L[k].subno>> : k \in 1..Len(L)}

\* a rendering with three lines at one address, the third with subno 2, and
\* a line at another address after them
C21_Witness ==
    /\ Rendered
    /\ \E k \in 3..(Len(RenderedModel.lines) - 1) :
           /\ RenderedModel.lines[k].subno = 2
           /\ RenderedModel.lines[k + 1].ea # RenderedModel.lines[k].ea

\* the unit with its head at offset off of area a runs to the last byte of a
UnitToAreaEnd(a, off) ==
    /\ a.FLAGS[off + 1] \in {CODE, DATA, STR}
    /\ \A q \in (off + 1)..(Len(a.FLAGS) - 1) :
           a.FLAGS[q + 1] = IF a.FLAGS[off + 1] = CODE THEN CODE_CONT ELSE DATA_CONT

\* C22: for a unit whose last byte is the last byte of its area,
\* get_unit_size returns the length of the unit, which is no more than
\* end - a + 1, and does not fail; render_partial reads no flag beyond the
\* end of an area, so it never raises IndexError.
C22_UnitWalkInsideArea ==
    /\ ret.op = "get_unit_size" =>
           \A n \in 1..Len(area_list) :
               LET a == area_list[n]
                   off == ret.args[1] - a.START
               IN  (off \in 0..(Len(a.FLAGS) - 1) /\ UnitToAreaEnd(a, off)) =>
                       /\ ret.exc = NoExc
                       /\ ret.val.sz = Len(a.FLAGS) - off
                       /\ ret.val.sz <= a.END - ret.args[1] + 1
    /\ ret.op = "render_partial" => ret.exc # IndexError

\* a plain linear scan of the areas from number n on: [off, area], area = 0
\* when no area has addr
RECURSIVE LinearScan(_, _)
LinearScan(addr, n) ==
    IF n > Len(area_list) THEN [off |-> -1, area |-> 0]
    ELSE IF area_list[n].START <= addr /\ addr <= area_list[n].END
    THEN [off |-> addr - area_list[n].START, area |-> n]
    ELSE LinearScan(addr, n + 1)

\* C23: the last-area cache is transparent: whatever area it holds,
\* addr2area(addr) returns the offset and the area a plain linear scan of the
\* area list returns, and (None, None) exactly when addr is in no area.
C23_CacheTransparent ==
    ret.op = "addr2area" =>
        /\ ret.val = LinearScan(ret.args[1], 1)
        /\ ret.val.area = 0 <=>
               ~\E k \in 1..Len(area_list) :
                   area_list[k].START <= ret.args[1] /\ ret.args[1] <= area_list[k].END

\* an address was resolved while the cache held another area than the one
\* returned, and one that comes later in the list
C23_Witness ==
    /\ ret.op = "addr2area"
    /\ ret.val.area # 0
    /\ ret.held > ret.val.area
    /\ last_area = ret.val.area

\* an address in no area was resolved while the cache held an area
C23_WitnessNone ==
    /\ ret.op = "addr2area"
    /\ ret.val.area = 0
    /\ ret.held # 0

====
